---- MODULE Spec2Model ----
(***************************************************************************)
(* Model of the full-text acquisition pipeline of trial_data_ingestion:    *)
(* run_fulltext (preprocessing/fulltext_enricher.py), the PMC adapter      *)
(* (sources/pmc.py), DOI normalisation (preprocessing/doi_utils.py) and    *)
(* the sliding-window rate limiter (sources/springer.py).                  *)
(*                                                                         *)
(* Strings are sequences of tokens.  "a" "b" are lower-case characters,    *)
(* "A" "B" their upper-case forms, " " is whitespace, "Z" the zero-width   *)
(* space U+200B, "P" a resolver-URL prefix typed with upper-case letters   *)
(* and "p" the same prefix in lower case.  The empty sequence stands for   *)
(* both the empty string and None (the code only tests truthiness).        *)
(***************************************************************************)
EXTENDS Integers, Sequences, FiniteSets, TLC

(* ---------------------------- bounds ---------------------------------- *)
MaxInput == 2
MaxRuns == 2
MaxChunk == 2
MinChars == 5
MaxCalls == 4
MaxTime == 4
MaxCapacity == 2
MaxWindow == 2
MaxLen == 3
MaxRecs == 2
MaxThreads == 2
MaxKids == 2

(* ------------------------ program constants --------------------------- *)
max_retries == 3

(* ------------------------- string helpers ----------------------------- *)
NoneStr == <<>>

LowerTok(t) ==
    CASE t = "A" -> "a"
      [] t = "B" -> "b"
      [] t = "P" -> "p"
      [] OTHER -> t

Lower(s) == [i \in 1..Len(s) |-> LowerTok(s[i])]

RECURSIVE LStrip(_)
LStrip(s) == IF s # <<>> /\ Head(s) = " " THEN LStrip(Tail(s)) ELSE s

RECURSIVE RStrip(_)
RStrip(s) ==
    IF s # <<>> /\ s[Len(s)] = " " THEN RStrip(SubSeq(s, 1, Len(s) - 1)) ELSE s

Strip(s) == RStrip(LStrip(s))

IsZeroWidth(t) == t = "Z"

RemoveZeroWidth(s) == SelectSeq(s, LAMBDA t : ~IsZeroWidth(t))

StripPrefix(s) == IF s # <<>> /\ Head(s) \in {"P", "p"} THEN Tail(s) ELSE s

normalize_doi(x) == Lower(Strip(RemoveZeroWidth(StripPrefix(Strip(x)))))

StripLower(d) == Lower(Strip(d))

(* ------------------------- sequence helpers --------------------------- *)
Range(s) == {s[i] : i \in 1..Len(s)}

RECURSIVE SeqSum(_)
SeqSum(s) == IF s = <<>> THEN 0 ELSE Head(s) + SeqSum(Tail(s))

RECURSIVE Flatten(_)
Flatten(ss) == IF ss = <<>> THEN <<>> ELSE Head(ss) \o Flatten(Tail(ss))

Min(a, b) == IF a < b THEN a ELSE b

Max(a, b) == IF a > b THEN a ELSE b

EmptyMap == [k \in {} |-> 0]

Get(m, k, default) == IF k \in DOMAIN m THEN m[k] ELSE default

Update(old, m) == m @@ old

RECURSIVE Batches(_, _)
Batches(items, size) ==
    IF items = <<>> THEN <<>>
    ELSE <<SubSeq(items, 1, Min(size, Len(items)))>>
         \o Batches(SubSeq(items, Min(size, Len(items)) + 1, Len(items)), size)

(* --------------------------- PMC identifiers -------------------------- *)
(* A PMCID string is its alphabetic prefix and its digits.                *)
Pmcid(pre, num) == [pre |-> pre, num |-> num]

NoPmcid == Pmcid("", "")

Digits(p) == p.num

PmcKey(pid) == Pmcid("PMC", pid)

(* ----------------------- documents and sections ----------------------- *)
(* A section node is the length of its own text (0: no text) and the text *)
(* lengths of its child sections; a forest is a sequence of nodes.        *)
Node(text, kids) == [text |-> text, kids |-> kids]

NodeTexts(n) == SelectSeq(<<n.text>> \o n.kids, LAMBDA l : l > 0)

sections_to_text_len(sections) ==
    LET parts == Flatten([i \in 1..Len(sections) |-> NodeTexts(sections[i])])
    IN  IF parts = <<>> THEN 0 ELSE SeqSum(parts) + 2 * (Len(parts) - 1)

_body_len(sections) == sections_to_text_len(sections)

NoParsed == [ok |-> FALSE, title |-> "", sections |-> <<>>, abstract |-> FALSE]

Parsed(title, sections, abstract) ==
    [ok |-> TRUE, title |-> title, sections |-> sections, abstract |-> abstract]

(* An <article>: its pmcid article-id (NoPmcid: none), whether it has a   *)
(* <body>, the forest the normalizer builds from the body, and whether    *)
(* the front matter has abstract text.                                    *)
Article(tag, body, sections, abstract) ==
    [tag |-> tag, body |-> body, sections |-> sections, abstract |-> abstract]

_article_pmcid(art) ==
    IF art.tag = NoPmcid THEN NoPmcid
    ELSE Pmcid(IF art.tag.pre = "pmc" THEN "PMC" ELSE art.tag.pre, art.tag.num)

_parse_article(art) ==
    IF ~art.body THEN Parsed("Untitled", <<>>, art.abstract)
    ELSE IF art.sections = <<>> /\ ~art.abstract THEN NoParsed
    ELSE Parsed("Untitled", art.sections, art.abstract)

(* ------------------------- upstream responses ------------------------- *)
(* One HTTP exchange: status 0 stands for a requests.RequestException     *)
(* (timeout, connection error); empty is an all-whitespace body; recs is  *)
(* the parsed payload (idconv records, or <article> elements).            *)
Http(status, empty, recs) == [status |-> status, empty |-> empty, recs |-> recs]

NetErr == Http(0, FALSE, <<>>)

IdconvRec(doi, pmcid) == [doi |-> doi, pmcid |-> pmcid]

Fail(id, reason) == [id |-> id, reason |-> reason]

(* --------------------- sources/pmc.py: resolution --------------------- *)
RECURSIVE IdconvCollect(_, _)
IdconvCollect(recs, out) ==
    IF recs = <<>> THEN out
    ELSE LET doi == StripLower(Head(recs).doi)
             pmcid == Head(recs).pmcid
         IN  IdconvCollect(Tail(recs),
                 IF doi # <<>> /\ pmcid # NoPmcid
                 THEN Update(out, [k \in {doi} |-> pmcid]) ELSE out)

RECURSIVE IdconvAttempt(_, _, _, _)
IdconvAttempt(chunk, script, attempt, last_err) ==
    IF attempt > max_retries
    THEN [out |-> EmptyMap,
          fails |-> [i \in 1..Len(chunk) |->
                        Fail(chunk[i], IF last_err = "" THEN "idconv: unknown error"
                                       ELSE last_err)],
          calls |-> max_retries]
    ELSE LET r == script[attempt]
         IN  IF r.status = 0
             THEN IdconvAttempt(chunk, script, attempt + 1, "idconv error: timeout")
             ELSE IF r.status = 200
             THEN LET out == IdconvCollect(r.recs, EmptyMap)
                      missing == SelectSeq(chunk, LAMBDA d : d \notin DOMAIN out)
                  IN  [out |-> out,
                       fails |-> [i \in 1..Len(missing) |->
                                     Fail(missing[i], "idconv: no PMCID")],
                       calls |-> attempt]
             ELSE IdconvAttempt(chunk, script, attempt + 1,
                                "idconv HTTP " \o ToString(r.status))

(* doi_to_pmcid_fetch_batch whose retry loop skips its first attempt. *)
doi_to_pmcid_fetch_batch_skip_first(dois, script) ==
    LET kept == SelectSeq(dois, LAMBDA d : d # <<>>)
        chunk == [i \in 1..Len(kept) |-> StripLower(kept[i])]
    IN  IdconvAttempt(chunk, script, 2, "")

doi_to_pmcid_fetch_batch(dois, script) ==
    LET kept == SelectSeq(dois, LAMBDA d : d # <<>>)
        chunk == [i \in 1..Len(kept) |-> StripLower(kept[i])]
    IN  IdconvAttempt(chunk, script, 1, "")

(* The single-item resolver: the first record with a PMCID is returned;  *)
(* a 200 answer without one is retried like an error, then Europe PMC.    *)
RECURSIVE FirstPmcid(_)
FirstPmcid(recs) ==
    IF recs = <<>> THEN NoPmcid
    ELSE IF Head(recs).pmcid # NoPmcid THEN Head(recs).pmcid
    ELSE FirstPmcid(Tail(recs))

RECURSIVE IdconvSingleAttempt(_, _, _)
IdconvSingleAttempt(script, attempt, last_err) ==
    IF attempt > max_retries
    THEN [pmcid |-> NoPmcid, err |-> last_err, calls |-> max_retries]
    ELSE LET r == script[attempt]
         IN  IF r.status = 0
             THEN IdconvSingleAttempt(script, attempt + 1, "idconv error: timeout")
             ELSE IF r.status = 200
             THEN IF FirstPmcid(r.recs) # NoPmcid
                  THEN [pmcid |-> FirstPmcid(r.recs), err |-> "", calls |-> attempt]
                  ELSE IdconvSingleAttempt(script, attempt + 1, "idconv: no PMCID")
             ELSE IdconvSingleAttempt(script, attempt + 1,
                                      "idconv HTTP " \o ToString(r.status))

doi_to_pmcid(doi, script, epmc) ==
    LET a == IdconvSingleAttempt(script, 1, "")
    IN  IF a.pmcid # NoPmcid THEN [pmcid |-> a.pmcid, err |-> ""]
        ELSE IF epmc.status = 0
        THEN [pmcid |-> NoPmcid, err |-> "EuropePMC error: timeout | " \o a.err]
        ELSE IF epmc.status = 200
        THEN IF FirstPmcid(epmc.recs) # NoPmcid
             THEN [pmcid |-> FirstPmcid(epmc.recs), err |-> ""]
             ELSE [pmcid |-> NoPmcid, err |-> "EuropePMC: no PMCID | " \o a.err]
        ELSE [pmcid |-> NoPmcid,
              err |-> "EuropePMC HTTP " \o ToString(epmc.status) \o " | " \o a.err]

(* ------------------------ sources/pmc.py: fetch ----------------------- *)
RECURSIVE EfetchCollect(_, _, _)
EfetchCollect(arts, out, seen) ==
    IF arts = <<>> THEN [out |-> out, seen |-> seen]
    ELSE LET art == Head(arts)
             pmcid_tag == _article_pmcid(art)
             parsed == _parse_article(art)
         IN  IF pmcid_tag = NoPmcid THEN EfetchCollect(Tail(arts), out, seen)
             ELSE IF parsed.ok
             THEN EfetchCollect(Tail(arts),
                                Update(out, [k \in {pmcid_tag} |-> parsed]),
                                seen \cup {Digits(pmcid_tag)})
             ELSE EfetchCollect(Tail(arts), out, seen)

try_pmc_jats_fetch_batch(pmcids, r) ==
    LET kept == SelectSeq(pmcids, LAMBDA p : p # NoPmcid)
        ids == [i \in 1..Len(kept) |-> Digits(kept[i])]
    IN  IF ids = <<>>
        THEN [raised |-> FALSE, out |-> EmptyMap, fails |-> <<>>]
        ELSE IF r.status = 0
        THEN [raised |-> TRUE, out |-> EmptyMap, fails |-> <<>>]
        ELSE IF r.status # 200 \/ r.empty
        THEN [raised |-> FALSE, out |-> EmptyMap,
              fails |-> [i \in 1..Len(ids) |->
                            Fail(PmcKey(ids[i]), "EFetch HTTP " \o ToString(r.status))]]
        ELSE LET c == EfetchCollect(r.recs, EmptyMap, {})
                 missing == SelectSeq(ids, LAMBDA pid : pid \notin c.seen)
             IN  [raised |-> FALSE, out |-> c.out,
                  fails |-> [i \in 1..Len(missing) |->
                                Fail(PmcKey(missing[i]),
                                     "EFetch: article not found in response")]]

(* The single-item chain: EFetch, OAI-PMH, Europe PMC, one exchange each. *)
RECURSIVE PmcJatsChain(_, _)
PmcJatsChain(chain, k) ==
    IF k > Len(chain)
    THEN [parsed |-> NoParsed, err |-> "PMC/EPMC: no JATS <article> found",
          calls |-> Len(chain)]
    ELSE LET r == chain[k]
         IN  IF r.status = 200 /\ ~r.empty /\ r.recs # <<>>
             THEN LET parsed == _parse_article(Head(r.recs))
                  IN  [parsed |-> parsed,
                       err |-> IF parsed.ok THEN "" ELSE "No sections/text",
                       calls |-> k]
             ELSE PmcJatsChain(chain, k + 1)

try_pmc_jats(pmcid, chain) ==
    IF Digits(pmcid) = ""
    THEN [parsed |-> NoParsed, err |-> "Invalid PMCID", calls |-> 0]
    ELSE PmcJatsChain(chain, 1)

(* ========================= sources/springer.py ========================= *)
(* Durations are counted in ticks of 1/4096 s, in which the fallback      *)
(* delays 0.75 ** attempt of the six attempts are whole numbers.          *)
max_attempts == 6

TicksPerSec == 4 ^ max_attempts

SleepCap == 60 * TicksPerSec

BackoffTicks(attempt) == (3 ^ attempt) * (4 ^ (max_attempts - attempt))

(* A Retry-After header: absent, not a number and not a date, a number   *)
(* of seconds (float() accepts a sign), or an HTTP date val seconds away  *)
(* from now.                                                              *)
RetryAfter(kind, val) == [kind |-> kind, val |-> val]

(* Lines 48-64 answering 0.0 for every header: the hint is never used. *)
_parse_retry_after_ignored(header_val) == 0

_parse_retry_after(header_val) ==
    CASE header_val.kind = "secs" -> header_val.val
      [] header_val.kind = "date" -> Max(0, header_val.val)
      [] OTHER -> 0

(* What sess.get does on one attempt: status 0 is a RequestException;    *)
(* content is "empty" (b""), "blank" (whitespace only) or "doc" (a        *)
(* payload holding a JATS article with sections).                         *)
SpResp(status, content, retry_after) ==
    [status |-> status, content |-> content, retry_after |-> retry_after]

NoResp == SpResp(0, "empty", RetryAfter("absent", 0))

Ev(ev, dur) == [ev |-> ev, dur |-> dur]

SpRet(ok, reason, parsed_status, raised, log) ==
    [ok |-> ok, reason |-> reason, parsed_status |-> parsed_status,
     raised |-> raised, log |-> log]

(* Lines 228-316: the response the loop left in resp.  A Response is     *)
(* false when its status is 400 or above.                                 *)
SpringerAfterLoop(resp, last_err, log) ==
    IF resp = NoResp \/ resp.status >= 400 \/ resp.content # "doc"
    THEN SpRet(FALSE,
               IF last_err # <<>> THEN last_err ELSE <<"Springer: empty response">>,
               0, "", log)
    ELSE SpRet(TRUE, <<>>, resp.status, "", log)

(* time.sleep(dur): a negative argument raises ValueError. *)
RECURSIVE SpringerAttempt(_, _, _, _, _)
SpringerSleepThen(dur, script, attempt, last_err, resp, log) ==
    IF dur < 0
    THEN SpRet(FALSE, <<>>, 0, "ValueError", Append(log, Ev("sleep", dur)))
    ELSE SpringerAttempt(script, attempt + 1, last_err, resp,
                         Append(log, Ev("sleep", dur)))

(* Lines 192-226: attempt number attempt of the loop. *)
SpringerAttempt(script, attempt, last_err, resp, log) ==
    IF attempt > max_attempts
    THEN SpringerAfterLoop(resp, last_err, log)
    ELSE LET r == script[attempt]
             sent == log \o <<Ev("acquire", 0), Ev("get", 0)>>
             http == <<"Springer HTTP", r.status>>
         IN  IF r.status = 0
             THEN IF attempt < max_attempts
                  THEN SpringerSleepThen(BackoffTicks(attempt), script, attempt,
                                         <<"Springer request error">>, resp, sent)
                  ELSE SpRet(FALSE, <<"Springer request error">>, 0, "", sent)
             ELSE IF r.status = 200 /\ r.content # "empty"
             THEN SpringerAfterLoop(r, last_err, sent)
             ELSE IF r.status = 429
             THEN LET hint == _parse_retry_after(r.retry_after)
                      wait == IF hint # 0 THEN hint * TicksPerSec
                              ELSE BackoffTicks(attempt)
                  IN  SpringerSleepThen(Min(wait, SleepCap), script, attempt,
                                        last_err, r, sent)
             ELSE IF r.status \in {500, 502, 503, 504}
             THEN IF attempt < max_attempts
                  THEN SpringerSleepThen(BackoffTicks(attempt), script, attempt,
                                         last_err, r, sent)
                  ELSE SpRet(FALSE, http, 0, "", sent)
             ELSE IF attempt < max_attempts
                  THEN SpringerSleepThen(BackoffTicks(attempt), script, attempt,
                                         http, r, sent)
                  ELSE SpRet(FALSE, http, 0, "", sent)

(* Lines 179-181 removed: the loop runs whether or not a key is set. *)
try_springer_jats_no_key_check(api_key, script) ==
    SpringerAttempt(script, 1, <<>>, NoResp, <<>>)

try_springer_jats(api_key, script) ==
    IF ~api_key
    THEN SpRet(FALSE, <<"SPRINGER_API_KEY not set">>, 0, "", <<>>)
    ELSE SpringerAttempt(script, 1, <<>>, NoResp, <<>>)

(* =================== preprocessing/fulltext_enricher.py ================ *)
VARIABLES
    out_json,          \* fulltext_articles_AUG25.json: the persisted records
    skipped_csv,       \* fulltext_skipped.csv: rows, <<>> when never written
    summary_json,      \* fulltext_summary.json
    pc,                \* position of run_fulltext
    runs,              \* invocations of run_fulltext so far
    cfg,               \* keyword arguments of the current invocation
    df,                \* deduplicated input rows
    records, doi_seen, failures, appended,
    todo_rows, skipped_existing,
    doi_batches, idconv_left, doi_to_pmc, conv_fails_all,
    pmc_batches, efetch_left, pmc_map, pmc_fails_all,
    row_i,             \* next row of the assemble loop
    prior_json,        \* history: out_json when the invocation started
    raised_batch,      \* history: the fetch batch whose call raised
    single_calls,      \* history: ids passed to try_pmc_jats in this run
    fetched,           \* history: per assembled row, the document obtained
    out_json_torn,     \* the result file ends in the middle of a document
    writes             \* history: writes of each output file in this run

(* ------------------ sliding-window limiter (springer.py) -------------- *)
VARIABLES
    rl_max, rl_win,    \* _RateLimiter.max, .win
    _timestamps,       \* _RateLimiter._timestamps
    clock,             \* time.time()
    admitted           \* history: clock value at each return of acquire

pipeVars == <<out_json, skipped_csv, summary_json, pc, runs, cfg, df, records,
              doi_seen, failures, appended, todo_rows, skipped_existing,
              doi_batches, idconv_left, doi_to_pmc, conv_fails_all,
              pmc_batches, efetch_left, pmc_map, pmc_fails_all, row_i,
              prior_json, raised_batch, single_calls, fetched,
              out_json_torn, writes>>

rlVars == <<rl_max, rl_win, _timestamps, clock, admitted>>

(* ------------- one call of an adapter or helper function -------------- *)
VARIABLES
    call_fn,           \* name of the function under call, "none": no call
    call_args,         \* its arguments and the upstream exchanges it meets
    call_done,         \* the call has returned
    call_ret           \* what it returned

callVars == <<call_fn, call_args, call_done, call_ret>>

(* ---------- threads calling _RateLimiter.acquire concurrently ---------- *)
VARIABLES
    th_pc,             \* per thread: its position inside acquire
    th_now,            \* per thread: the local now of line 36
    th_wake            \* per thread: when its time.sleep of line 44 ends

thVars == <<th_pc, th_now, th_wake>>

(* -------------------------- upstream services -------------------------- *)
VARIABLES
    upstream           \* how the services answer a request, fixed for a run

envVars == <<upstream>>

nonPipeVars == <<rlVars, callVars, thVars, envVars>>

nonRlVars == <<pipeVars, callVars, thVars, envVars>>

nonCallVars == <<pipeVars, rlVars, thVars, envVars>>

vars == <<pipeVars, rlVars, callVars, thVars, envVars>>

(* ------------------------------ inputs -------------------------------- *)
Row(doi, journal) == [doi |-> doi, journal |-> journal]

InputRows ==
    { Row(<<"a">>, "J1"),
      Row(<<"P", "A">>, "J2"),
      Row(<<" ", "b">>, " "),
      Row(<<"Z">>, "J1") }

Inputs == UNION {[1..n -> InputRows] : n \in 0..MaxInput}

Configs ==
    {c \in [idconv_chunk : {1, MaxChunk},
            efetch_chunk : {1, MaxChunk},
            require_fulltext : BOOLEAN,
            min_fulltext_chars : {0, MinChars},
            skip_pmc_single_fallback : BOOLEAN] :
        c.require_fulltext \/ c.min_fulltext_chars = MinChars}

NoConfig ==
    [idconv_chunk |-> 1, efetch_chunk |-> 1, require_fulltext |-> TRUE,
     min_fulltext_chars |-> 0, skip_pmc_single_fallback |-> TRUE]

PMC1 == Pmcid("PMC", "1")
PMC2 == Pmcid("PMC", "2")

(* Upstream behaviour is drawn from these sets. *)
UpperTok(t) ==
    CASE t = "a" -> "A"
      [] t = "b" -> "B"
      [] OTHER -> t

Upper(s) == [i \in 1..Len(s) |-> UpperTok(s[i])]

IdconvAnswers(d) ==
    { <<>>,
      <<IdconvRec(d, PMC1)>>,
      <<IdconvRec(<<" ">> \o Upper(d), PMC2)>>,
      <<IdconvRec(d, NoPmcid)>> }

RECURSIVE IdconvPayloads(_)
IdconvPayloads(batch) ==
    IF batch = <<>> THEN {<<>>}
    ELSE {x \o rest : x \in IdconvAnswers(Head(batch)),
                      rest \in IdconvPayloads(Tail(batch))}

IdconvScripts(batch) ==
    {<<Http(200, FALSE, p), NetErr, NetErr>> : p \in IdconvPayloads(batch)}
    \cup {<<Http(503, FALSE, <<>>), Http(200, FALSE, p), NetErr>> :
              p \in IdconvPayloads(batch)}
    \cup {<<NetErr, Http(429, FALSE, <<>>), Http(503, FALSE, <<>>)>>,
          <<Http(503, FALSE, <<>>), Http(429, FALSE, <<>>), NetErr>>}

FullDoc == <<Node(1, <<MinChars - 3>>)>>
ShortDoc == <<Node(MinChars - 1, <<>>)>>

ArticlesFor(p) ==
    { Article(Pmcid("pmc", Digits(p)), TRUE, FullDoc, TRUE),
      Article(p, TRUE, ShortDoc, TRUE),
      Article(p, FALSE, <<>>, FALSE),
      Article(p, TRUE, <<>>, FALSE) }

RECURSIVE EfetchPayloads(_)
EfetchPayloads(batch) ==
    IF batch = <<>> THEN {<<>>}
    ELSE {x \o rest : x \in {<<>>} \cup {<<a>> : a \in ArticlesFor(Head(batch))},
                      rest \in EfetchPayloads(Tail(batch))}

EfetchResponses(batch) ==
    {NetErr, Http(503, FALSE, <<>>), Http(200, TRUE, <<>>)}
    \cup {Http(200, FALSE, p) : p \in EfetchPayloads(batch)}

SingleExchanges(p) ==
    {NetErr} \cup {Http(200, FALSE, <<a>>) : a \in ArticlesFor(p)}

SingleChains(p) ==
    {<<x, y, z>> : x \in SingleExchanges(p), y \in {NetErr}, z \in {NetErr}}
    \cup {<<NetErr, y, z>> : y \in SingleExchanges(p), z \in SingleExchanges(p)}

(* ------------------------------ helpers ------------------------------- *)
RECURSIVE DropDuplicates(_, _)
DropDuplicates(rows, seen) ==
    IF rows = <<>> THEN <<>>
    ELSE LET dn == normalize_doi(Head(rows).doi)
         IN  IF dn = NoneStr \/ dn \in seen
             THEN DropDuplicates(Tail(rows), seen)
             ELSE <<[doi |-> Head(rows).doi, journal |-> Head(rows).journal,
                     doi_norm |-> dn]>>
                  \o DropDuplicates(Tail(rows), seen \cup {dn})

RECURSIVE KeepAllRows(_)
KeepAllRows(rows) ==
    IF rows = <<>> THEN <<>>
    ELSE LET dn == normalize_doi(Head(rows).doi)
         IN  IF dn = NoneStr THEN KeepAllRows(Tail(rows))
             ELSE <<[doi |-> Head(rows).doi, journal |-> Head(rows).journal,
                     doi_norm |-> dn]>> \o KeepAllRows(Tail(rows))

(* load_input_df without drop_duplicates. *)
load_input_df_no_dedupe(input) == KeepAllRows(input)

load_input_df(input) == DropDuplicates(input, {})

(* load_existing comparing raw, un-normalized identifiers. *)
load_existing_raw(file) ==
    [data |-> file, seen |-> {file[i].doi : i \in 1..Len(file)} \ {NoneStr}]

(* load_existing that keeps the keys but starts from an empty record list. *)
load_existing_no_data(file) ==
    [data |-> <<>>,
     seen |-> {normalize_doi(file[i].doi) : i \in 1..Len(file)} \ {NoneStr}]

load_existing(file) ==
    [data |-> file,
     seen |-> {normalize_doi(file[i].doi) : i \in 1..Len(file)} \ {NoneStr}]

canonicalize_record(doi, title, sections, source, pmcid, journal) ==
    [doi |-> doi, title |-> title,
     journal |-> IF journal \in {"", " "} THEN "" ELSE journal,
     source |-> source, pmcid |-> pmcid, sections |-> sections]

FailureEntry(doi, journal, reason) ==
    [doi |-> doi, journal |-> journal, reason |-> reason]

FirstReason(fails, dn) ==
    LET hits == SelectSeq(fails, LAMBDA f : f.id = dn)
    IN  IF hits = <<>> THEN "" ELSE Head(hits).reason

PmcidsOf(dois_norm, d2p) ==
    LET hit == SelectSeq(dois_norm, LAMBDA d : d \in DOMAIN d2p)
    IN  [i \in 1..Len(hit) |-> d2p[hit[i]]]

(* Lines 234-238 without line 237: the skipped rows are not reported. *)
Summary_drop_skipped(n_df, n_app, n_skip, n_fail) ==
    [input_unique_doi |-> n_df, appended |-> n_app,
     skipped_existing |-> 0, failures |-> n_fail,
     skipped_csv |-> n_fail > 0]

Summary(n_df, n_app, n_skip, n_fail) ==
    [input_unique_doi |-> n_df, appended |-> n_app,
     skipped_existing |-> n_skip, failures |-> n_fail,
     skipped_csv |-> n_fail > 0]

NoSummary == Summary(0, 0, 0, 0)

NoWrites == [out_json |-> 0, skipped_csv |-> 0, summary_json |-> 0]

(* ------------------------- run_fulltext ------------------------------- *)
PipeStart ==
    /\ out_json = <<>> /\ skipped_csv = <<>> /\ summary_json = NoSummary
    /\ pc = "idle" /\ runs = 0 /\ cfg = NoConfig
    /\ df = <<>> /\ records = <<>> /\ doi_seen = {} /\ failures = <<>>
    /\ appended = 0 /\ todo_rows = <<>> /\ skipped_existing = 0
    /\ doi_batches = <<>> /\ idconv_left = {} /\ doi_to_pmc = EmptyMap
    /\ conv_fails_all = <<>>
    /\ pmc_batches = <<>> /\ efetch_left = {} /\ pmc_map = EmptyMap
    /\ pmc_fails_all = <<>>
    /\ row_i = 1
    /\ prior_json = <<>> /\ raised_batch = <<>> /\ single_calls = {}
    /\ fetched = <<>>
    /\ out_json_torn = FALSE /\ writes = NoWrites

(* An upstream that answers exactly what it was asked. *)
Honest == [idconv_foreign |-> FALSE, efetch_foreign |-> FALSE]

PipeInit == PipeStart /\ upstream = Honest

Threads == 1..MaxThreads

NoThreads ==
    /\ th_pc = [t \in Threads |-> "idle"]
    /\ th_now = [t \in Threads |-> 0]
    /\ th_wake = [t \in Threads |-> 0]

RlIdle ==
    /\ rl_max = 1 /\ rl_win = 1 /\ _timestamps = <<>> /\ clock = 0
    /\ admitted = <<>>
    /\ NoThreads

NoCall ==
    /\ call_fn = "none" /\ call_args = <<>>
    /\ call_done = FALSE /\ call_ret = <<>>

dois_norm == Flatten(doi_batches)

(* Stage B set-up (lines 167-170), taken once Stage A has no batch left. *)
EnterStageB(d2p, all_dois) ==
    LET pmcids == PmcidsOf(all_dois, d2p)
        batches == Batches(pmcids, cfg'.efetch_chunk)
    IN  /\ pmc_batches' = batches
        /\ efetch_left' = 1..Len(batches)
        /\ pmc_map' = EmptyMap
        /\ pmc_fails_all' = <<>>
        /\ row_i' = 1
        /\ pc' = IF batches = <<>> THEN "assemble" ELSE "stageB"

(* The worklist without the already-present filter. *)
Worklist_all(d, seen) == d

Worklist(d, seen) == SelectSeq(d, LAMBDA row : row.doi_norm \notin seen)

(* Lines 119-147: load and dedupe the input, resume, build the worklist. *)
StartRun(input, c) ==
    /\ pc = "idle"
    /\ runs < MaxRuns
    /\ ~out_json_torn
    /\ LET d == load_input_df(input)
           le == load_existing(out_json)
           todo == Worklist(d, le.seen)
           dn == [i \in 1..Len(todo) |-> normalize_doi(todo[i].doi)]
           batches == Batches(dn, c.idconv_chunk)
       IN  /\ runs' = runs + 1
           /\ cfg' = c
           /\ df' = d
           /\ records' = le.data
           /\ doi_seen' = le.seen
           /\ failures' = <<>>
           /\ appended' = 0
           /\ todo_rows' = todo
           /\ skipped_existing' = Len(d) - Len(todo)
           /\ doi_batches' = batches
           /\ idconv_left' = 1..Len(batches)
           /\ doi_to_pmc' = EmptyMap
           /\ conv_fails_all' = <<>>
           /\ prior_json' = out_json
           /\ raised_batch' = <<>>
           /\ single_calls' = {}
           /\ fetched' = <<>>
           /\ IF batches = <<>>
              THEN EnterStageB(EmptyMap, <<>>)
              ELSE /\ pc' = "stageA"
                   /\ pmc_batches' = <<>> /\ efetch_left' = {}
                   /\ pmc_map' = EmptyMap /\ pmc_fails_all' = <<>>
                   /\ row_i' = 1
    /\ UNCHANGED <<out_json, skipped_csv, summary_json, out_json_torn, writes,
                   nonPipeVars>>

(* Lines 125-132 on a result file that is not a complete JSON document:  *)
(* json.load raises and the exception leaves run_fulltext.                *)
StartRunLoadFails(input, c) ==
    /\ pc = "idle"
    /\ runs < MaxRuns
    /\ out_json_torn
    /\ runs' = runs + 1
    /\ cfg' = c
    /\ df' = load_input_df(input)
    /\ pc' = "aborted"
    /\ UNCHANGED <<out_json, skipped_csv, summary_json, records, doi_seen,
                   failures, appended, todo_rows, skipped_existing, doi_batches,
                   idconv_left, doi_to_pmc, conv_fails_all, pmc_batches,
                   efetch_left, pmc_map, pmc_fails_all, row_i, prior_json,
                   raised_batch, single_calls, fetched, out_json_torn, writes,
                   nonPipeVars>>

(* Lines 149-164: one idconv future completes and is merged. *)
IdconvBatchDone(b, script) ==
    /\ pc = "stageA"
    /\ b \in idconv_left
    /\ LET res == doi_to_pmcid_fetch_batch(doi_batches[b], script)
           d2p == Update(doi_to_pmc, res.out)
       IN  /\ doi_to_pmc' = d2p
           /\ conv_fails_all' = conv_fails_all \o res.fails
           /\ idconv_left' = idconv_left \ {b}
           /\ cfg' = cfg
           /\ IF idconv_left \ {b} = {}
              THEN EnterStageB(d2p, dois_norm)
              ELSE UNCHANGED <<pc, pmc_batches, efetch_left, pmc_map,
                               pmc_fails_all, row_i>>
    /\ UNCHANGED <<out_json, skipped_csv, summary_json, runs, df, records,
                   doi_seen, failures, appended, todo_rows, skipped_existing,
                   doi_batches, prior_json, raised_batch, single_calls, fetched,
                   out_json_torn, writes, nonPipeVars>>

(* Lines 172-187: one efetch future completes; fut.result() re-raises the *)
(* worker's exception, which leaves run_fulltext.                         *)
EfetchBatchDone(b, r) ==
    /\ pc = "stageB"
    /\ b \in efetch_left
    /\ LET res == try_pmc_jats_fetch_batch(pmc_batches[b], r)
       IN  IF res.raised
           THEN /\ pc' = "aborted"
                /\ raised_batch' = pmc_batches[b]
                /\ UNCHANGED <<pmc_map, pmc_fails_all, efetch_left>>
           ELSE /\ pmc_map' = Update(pmc_map, res.out)
                /\ pmc_fails_all' = pmc_fails_all \o res.fails
                /\ efetch_left' = efetch_left \ {b}
                /\ pc' = IF efetch_left \ {b} = {} THEN "assemble" ELSE "stageB"
                /\ UNCHANGED raised_batch
    /\ UNCHANGED <<out_json, skipped_csv, summary_json, runs, cfg, df, records,
                   doi_seen, failures, appended, todo_rows, skipped_existing,
                   doi_batches, idconv_left, doi_to_pmc, conv_fails_all,
                   pmc_batches, row_i, prior_json, single_calls, fetched,
                   out_json_torn, writes, nonPipeVars>>

(* The single-item fallback taken whatever skip_pmc_single_fallback says. *)
NeedsSingle_ignore_toggle(row) ==
    LET dn == normalize_doi(row.doi)
        pmcid == Get(doi_to_pmc, dn, NoPmcid)
    IN  /\ pmcid # NoPmcid
        /\ ~Get(pmc_map, pmcid, NoParsed).ok

(* Lines 191-226: one iteration of the assemble loop. *)
NeedsSingle(row) ==
    LET dn == normalize_doi(row.doi)
        pmcid == Get(doi_to_pmc, dn, NoPmcid)
    IN  /\ pmcid # NoPmcid
        /\ ~Get(pmc_map, pmcid, NoParsed).ok
        /\ ~cfg.skip_pmc_single_fallback

(* Lines 211-212 removed: every parsed document is accepted. *)
Accepts_any(c, sections) == TRUE

(* The content-length gate with an off-by-one comparison. *)
Accepts_off_by_one(c, sections) ==
    ~(c.require_fulltext /\ _body_len(sections) <= Max(0, c.min_fulltext_chars))

Accepts(c, sections) ==
    ~(c.require_fulltext /\ _body_len(sections) < Max(0, c.min_fulltext_chars))

AssembleRow(chain) ==
    /\ pc = "assemble"
    /\ row_i <= Len(todo_rows)
    /\ LET row == todo_rows[row_i]
           doi_raw == row.doi
           journal == row.journal
           dn == normalize_doi(doi_raw)
           pmcid == Get(doi_to_pmc, dn, NoPmcid)
           batched == Get(pmc_map, pmcid, NoParsed)
           parsed == IF NeedsSingle(row) THEN try_pmc_jats(pmcid, chain).parsed
                     ELSE batched
       IN  /\ NeedsSingle(row) \/ chain = <<>>
           /\ single_calls' = IF NeedsSingle(row) THEN single_calls \cup {pmcid}
                              ELSE single_calls
           /\ fetched' = Append(fetched,
                             [key |-> dn,
                              parsed |-> IF pmcid = NoPmcid THEN NoParsed ELSE parsed])
           /\ IF pmcid = NoPmcid
              THEN /\ failures' = Append(failures,
                        FailureEntry(doi_raw, journal,
                            IF FirstReason(conv_fails_all, dn) = "" THEN "No PMCID"
                            ELSE FirstReason(conv_fails_all, dn)))
                   /\ UNCHANGED <<records, doi_seen, appended>>
              ELSE IF parsed.ok
              THEN IF ~Accepts(cfg, parsed.sections)
                   THEN /\ failures' = Append(failures,
                             FailureEntry(doi_raw, journal, "abstract_only"))
                        /\ UNCHANGED <<records, doi_seen, appended>>
                   ELSE /\ records' = Append(records,
                             canonicalize_record(doi_raw, parsed.title,
                                 parsed.sections, "pmc", pmcid, journal))
                        /\ doi_seen' = doi_seen \cup {dn}
                        /\ appended' = appended + 1
                        /\ UNCHANGED failures
              ELSE /\ failures' = Append(failures,
                        FailureEntry(doi_raw, journal,
                            IF cfg.skip_pmc_single_fallback
                            THEN "PMC fetch failed (batched only)"
                            ELSE "PMC fetch failed (batched + single)"))
                   /\ UNCHANGED <<records, doi_seen, appended>>
    /\ row_i' = row_i + 1
    /\ UNCHANGED <<out_json, skipped_csv, summary_json, pc, runs, cfg, df,
                   todo_rows, skipped_existing, doi_batches, idconv_left,
                   doi_to_pmc, conv_fails_all, pmc_batches, efetch_left,
                   pmc_map, pmc_fails_all, prior_json, raised_batch,
                   out_json_torn, writes, nonPipeVars>>

(* Lines 229-250: persist the result set, the ledger and the summary. *)
Wrote(w, files) ==
    [f \in DOMAIN w |-> IF f \in files THEN w[f] + 1 ELSE w[f]]

(* The persist step taken as soon as the fetch stage has started. *)
Persist_early ==
    /\ pc \in {"stageB", "assemble"}
    /\ pc = "assemble" => row_i > Len(todo_rows)
    /\ out_json' = records
    /\ out_json_torn' = FALSE
    /\ skipped_csv' = IF failures # <<>> THEN failures ELSE skipped_csv
    /\ summary_json' = Summary(Len(df), appended, skipped_existing, Len(failures))
    /\ writes' = Wrote(writes, {"out_json", "summary_json"}
                                \cup IF failures # <<>> THEN {"skipped_csv"} ELSE {})
    /\ pc' = "done"
    /\ UNCHANGED <<runs, cfg, df, records, doi_seen, failures, appended,
                   todo_rows, skipped_existing, doi_batches, idconv_left,
                   doi_to_pmc, conv_fails_all, pmc_batches, efetch_left,
                   pmc_map, pmc_fails_all, row_i, prior_json, raised_batch,
                   single_calls, fetched, nonPipeVars>>

Persist ==
    /\ pc = "assemble"
    /\ row_i > Len(todo_rows)
    /\ out_json' = records
    /\ out_json_torn' = FALSE
    /\ skipped_csv' = IF failures # <<>> THEN failures ELSE skipped_csv
    /\ summary_json' = Summary(Len(df), appended, skipped_existing, Len(failures))
    /\ writes' = Wrote(writes, {"out_json", "summary_json"}
                                \cup IF failures # <<>> THEN {"skipped_csv"} ELSE {})
    /\ pc' = "done"
    /\ UNCHANGED <<runs, cfg, df, records, doi_seen, failures, appended,
                   todo_rows, skipped_existing, doi_batches, idconv_left,
                   doi_to_pmc, conv_fails_all, pmc_batches, efetch_left,
                   pmc_map, pmc_fails_all, row_i, prior_json, raised_batch,
                   single_calls, fetched, nonPipeVars>>

(* The process is killed or cancelled inside the persist step.  save_json *)
(* opens the result file with mode "w", which empties it, and json.dump   *)
(* then writes the document piece by piece: the file keeps the first k    *)
(* records written, torn unless nothing or everything reached it.         *)
PersistInterrupted(k, torn) ==
    /\ pc = "assemble"
    /\ row_i > Len(todo_rows)
    /\ k \in 0..Len(records)
    /\ ~torn => k \in {0, Len(records)}
    /\ out_json' = SubSeq(records, 1, k)
    /\ out_json_torn' = torn
    /\ writes' = Wrote(writes, {"out_json"})
    /\ pc' = "aborted"
    /\ UNCHANGED <<skipped_csv, summary_json, runs, cfg, df, records, doi_seen,
                   failures, appended, todo_rows, skipped_existing, doi_batches,
                   idconv_left, doi_to_pmc, conv_fails_all, pmc_batches,
                   efetch_left, pmc_map, pmc_fails_all, row_i, prior_json,
                   raised_batch, single_calls, fetched, nonPipeVars>>

(* Line 250, or the exception of line 183 reaching the caller: the       *)
(* invocation is over and its locals are gone; the files stay.            *)
Return ==
    /\ pc \in {"done", "aborted"}
    /\ pc' = "idle"
    /\ cfg' = NoConfig
    /\ df' = <<>> /\ records' = <<>> /\ doi_seen' = {} /\ failures' = <<>>
    /\ appended' = 0 /\ todo_rows' = <<>> /\ skipped_existing' = 0
    /\ doi_batches' = <<>> /\ idconv_left' = {} /\ doi_to_pmc' = EmptyMap
    /\ conv_fails_all' = <<>>
    /\ pmc_batches' = <<>> /\ efetch_left' = {} /\ pmc_map' = EmptyMap
    /\ pmc_fails_all' = <<>>
    /\ row_i' = 1
    /\ prior_json' = <<>> /\ raised_batch' = <<>> /\ single_calls' = {}
    /\ fetched' = <<>>
    /\ writes' = NoWrites
    /\ UNCHANGED <<out_json, skipped_csv, summary_json, out_json_torn, runs,
                   nonPipeVars>>

CurrentChains ==
    IF pc = "assemble" /\ row_i <= Len(todo_rows) /\ NeedsSingle(todo_rows[row_i])
    THEN SingleChains(Get(doi_to_pmc, normalize_doi(todo_rows[row_i].doi), NoPmcid))
    ELSE {<<>>}

(* A single invocation of run_fulltext against an empty output directory, *)
(* with the full range of upstream behaviour.                             *)
Next ==
    \/ \E input \in Inputs, c \in Configs : runs = 0 /\ StartRun(input, c)
    \/ \E b \in idconv_left : \E script \in IdconvScripts(doi_batches[b]) :
           IdconvBatchDone(b, script)
    \/ \E b \in efetch_left : \E r \in EfetchResponses(pmc_batches[b]) :
           EfetchBatchDone(b, r)
    \/ \E chain \in CurrentChains : AssembleRow(chain)
    \/ Persist
    \/ Return

Init == PipeInit /\ RlIdle /\ NoCall

Spec == Init /\ [][Next]_vars

(* Repeated invocations against the same output directory (resume), with  *)
(* the default policy and one upstream answer of each kind.               *)
ResumeConfigs ==
    {c \in Configs : /\ c.idconv_chunk = c.efetch_chunk
                     /\ c.require_fulltext /\ c.min_fulltext_chars = MinChars
                     /\ c.skip_pmc_single_fallback}

PmcidOfDoi(d) == IF d = <<"a">> THEN PMC1 ELSE PMC2

RECURSIVE ResumePayloads(_)
ResumePayloads(batch) ==
    IF batch = <<>> THEN {<<>>}
    ELSE {x \o rest :
              x \in {<<>>, <<IdconvRec(Head(batch), PmcidOfDoi(Head(batch)))>>},
              rest \in ResumePayloads(Tail(batch))}

ResumeScripts(batch) ==
    {<<Http(200, FALSE, p), NetErr, NetErr>> : p \in ResumePayloads(batch)}
    \cup {<<NetErr, NetErr, Http(503, FALSE, <<>>)>>}

RECURSIVE ResumeArticles(_)
ResumeArticles(batch) ==
    IF batch = <<>> THEN {<<>>}
    ELSE {x \o rest :
              x \in {<<>>, <<Article(Head(batch), TRUE, FullDoc, TRUE)>>,
                     <<Article(Head(batch), TRUE, ShortDoc, TRUE)>>},
              rest \in ResumeArticles(Tail(batch))}

ResumeResponses(batch) ==
    {NetErr} \cup {Http(200, FALSE, p) : p \in ResumeArticles(batch)}

NextResume ==
    \/ \E input \in Inputs, c \in ResumeConfigs : StartRun(input, c)
    \/ \E b \in idconv_left : \E script \in ResumeScripts(doi_batches[b]) :
           IdconvBatchDone(b, script)
    \/ \E b \in efetch_left : \E r \in ResumeResponses(pmc_batches[b]) :
           EfetchBatchDone(b, r)
    \/ AssembleRow(<<>>)
    \/ Persist
    \/ Return

SpecResume == Init /\ [][NextResume]_vars

(* One run against services whose answer is a function of the request,   *)
(* so that the completion order of the batches is all that varies.  The   *)
(* resolver answers every requested identifier and, when idconv_foreign,  *)
(* adds a record for identifier a to an answer about b; EFetch returns    *)
(* every requested article and, when efetch_foreign, adds an article      *)
(* tagged PMC1 to an answer about PMC2.                                   *)
Upstreams == [idconv_foreign : BOOLEAN, efetch_foreign : BOOLEAN]

MergeConfigs ==
    {c \in Configs : /\ c.require_fulltext /\ c.min_fulltext_chars = MinChars
                     /\ c.skip_pmc_single_fallback}

MergeScript(batch) ==
    LET own == [i \in 1..Len(batch) |-> IdconvRec(batch[i], PmcidOfDoi(batch[i]))]
        extra == IF upstream.idconv_foreign /\ <<"b">> \in Range(batch)
                 THEN <<IdconvRec(<<"a">>, PMC2)>> ELSE <<>>
    IN  <<Http(200, FALSE, own \o extra), NetErr, NetErr>>

DocOf(p) == IF p = PMC1 THEN FullDoc ELSE ShortDoc

MergeResponse(batch) ==
    LET own == [i \in 1..Len(batch) |-> Article(batch[i], TRUE, DocOf(batch[i]), TRUE)]
        extra == IF upstream.efetch_foreign /\ PMC2 \in Range(batch)
                 THEN <<Article(PMC1, TRUE, ShortDoc, TRUE)>> ELSE <<>>
    IN  Http(200, FALSE, own \o extra)

InitMerge == PipeStart /\ RlIdle /\ NoCall /\ upstream \in Upstreams

NextMerge ==
    \/ \E input \in Inputs, c \in MergeConfigs : runs = 0 /\ StartRun(input, c)
    \/ \E b \in idconv_left : IdconvBatchDone(b, MergeScript(doi_batches[b]))
    \/ \E b \in efetch_left : EfetchBatchDone(b, MergeResponse(pmc_batches[b]))
    \/ AssembleRow(<<>>)
    \/ Persist
    \/ Return

SpecMerge == InitMerge /\ [][NextMerge]_vars

(* Repeated invocations, any of which may be killed in its persist step. *)
NextCrash ==
    \/ \E input \in Inputs, c \in ResumeConfigs : StartRun(input, c)
    \/ \E input \in Inputs, c \in ResumeConfigs : StartRunLoadFails(input, c)
    \/ \E b \in idconv_left : \E script \in ResumeScripts(doi_batches[b]) :
           IdconvBatchDone(b, script)
    \/ \E b \in efetch_left : \E r \in ResumeResponses(pmc_batches[b]) :
           EfetchBatchDone(b, r)
    \/ AssembleRow(<<>>)
    \/ Persist
    \/ \E k \in 0..MaxInput * MaxRuns, torn \in BOOLEAN : PersistInterrupted(k, torn)
    \/ Return

SpecCrash == Init /\ [][NextCrash]_vars

(* ================= sources/springer.py: _RateLimiter =================== *)
RECURSIVE DropOld(_, _, _)
DropOld(ts, now, win) ==
    IF ts # <<>> /\ now - Head(ts) > win THEN DropOld(Tail(ts), now, win) ELSE ts

RateLimiterNew(max_requests, window_secs) ==
    /\ rl_max = Max(1, max_requests)
    /\ rl_win = Max(1, window_secs)
    /\ _timestamps = <<>>

(* acquire(), with time.sleep advancing the clock by exactly sleep_for. *)
acquire ==
    /\ Len(admitted) < MaxCalls
    /\ LET now == clock
           ts == DropOld(_timestamps, now, rl_win)
           sleep_for == IF Len(ts) >= rl_max THEN rl_win - (now - Head(ts)) ELSE 0
           woke == IF sleep_for > 0 THEN now + sleep_for ELSE now
       IN  /\ clock' = woke
           /\ _timestamps' = Append(ts, woke)
           /\ admitted' = Append(admitted, woke)
    /\ UNCHANGED <<rl_max, rl_win, nonRlVars>>

(* Time passes between two calls. *)
Tick ==
    /\ clock < MaxTime
    /\ clock' = clock + 1
    /\ UNCHANGED <<rl_max, rl_win, _timestamps, admitted, nonRlVars>>

InitRL ==
    /\ PipeInit
    /\ NoCall
    /\ NoThreads
    /\ \E m \in 0..MaxCapacity, w \in 0..MaxWindow : RateLimiterNew(m, w)
    /\ clock = 0
    /\ admitted = <<>>

NextRL == acquire \/ Tick

SpecRL == InitRL /\ [][NextRL]_vars

(* ---- acquire() called from several threads on the shared limiter ----- *)
(* _SPRINGER_LIMITER (line 86) is one module-level object and acquire     *)
(* takes no lock, so the statements of lines 36-45 of different threads   *)
(* interleave; each action below is one statement of one thread.          *)
InFlight == {t \in Threads : th_pc[t] \notin {"idle", "raised"}}

Goto(t, label) ==
    /\ th_pc' = [th_pc EXCEPT ![t] = label]

(* Line 36: now = time.time() *)
ReadNow(t) ==
    /\ th_pc[t] = "idle"
    /\ Len(admitted) + Cardinality(InFlight) < MaxCalls
    /\ th_now' = [th_now EXCEPT ![t] = clock]
    /\ Goto(t, "test")
    /\ UNCHANGED <<rlVars, th_wake, pipeVars, callVars, envVars>>

(* Line 38: the loop condition. *)
TestOldest(t) ==
    /\ th_pc[t] = "test"
    /\ IF _timestamps # <<>> /\ th_now[t] - Head(_timestamps) > rl_win
       THEN Goto(t, "pop")
       ELSE Goto(t, "full")
    /\ UNCHANGED <<rlVars, th_now, th_wake, pipeVars, callVars, envVars>>

(* Line 39: popleft(), IndexError on an empty deque. *)
PopLeft(t) ==
    /\ th_pc[t] = "pop"
    /\ IF _timestamps = <<>>
       THEN Goto(t, "raised") /\ UNCHANGED _timestamps
       ELSE Goto(t, "test") /\ _timestamps' = Tail(_timestamps)
    /\ UNCHANGED <<rl_max, rl_win, clock, admitted, th_now, th_wake,
                   pipeVars, callVars, envVars>>

(* Line 41: if len(self._timestamps) >= self.max *)
TestFull(t) ==
    /\ th_pc[t] = "full"
    /\ IF Len(_timestamps) >= rl_max
       THEN Goto(t, "sleep_for")
       ELSE Goto(t, "append")
    /\ UNCHANGED <<rlVars, th_now, th_wake, pipeVars, callVars, envVars>>

(* Lines 42-44: sleep_for from the oldest timestamp, then time.sleep. *)
SleepFor(t) ==
    /\ th_pc[t] = "sleep_for"
    /\ IF _timestamps = <<>>
       THEN Goto(t, "raised") /\ UNCHANGED th_wake
       ELSE LET sleep_for == rl_win - (th_now[t] - Head(_timestamps))
            IN  IF sleep_for > 0
                THEN /\ Goto(t, "asleep")
                     /\ th_wake' = [th_wake EXCEPT ![t] = clock + sleep_for]
                ELSE Goto(t, "append") /\ UNCHANGED th_wake
    /\ UNCHANGED <<rlVars, th_now, pipeVars, callVars, envVars>>

(* time.sleep returns once the clock has reached the wake-up time. *)
Wake(t) ==
    /\ th_pc[t] = "asleep"
    /\ clock >= th_wake[t]
    /\ Goto(t, "append")
    /\ UNCHANGED <<rlVars, th_now, th_wake, pipeVars, callVars, envVars>>

(* Line 45: self._timestamps.append(time.time()), and acquire returns. *)
AppendNow(t) ==
    /\ th_pc[t] = "append"
    /\ _timestamps' = Append(_timestamps, clock)
    /\ admitted' = Append(admitted, clock)
    /\ Goto(t, "idle")
    /\ UNCHANGED <<rl_max, rl_win, clock, th_now, th_wake, pipeVars, callVars, envVars>>

NextThreads ==
    \/ \E t \in Threads :
           \/ ReadNow(t) \/ TestOldest(t) \/ PopLeft(t) \/ TestFull(t)
           \/ SleepFor(t) \/ Wake(t) \/ AppendNow(t)
    \/ Tick

SpecThreads == InitRL /\ [][NextThreads]_vars

(* =================== preprocessing/xml_cleaning.py ===================== *)
(* JATS markup.  A text is a sequence of words.  A <sec> has an optional *)
(* <title> child and child elements; a <table-wrap> stands for the        *)
(* elements of DROP_TAGS and may hold a <title> of its own; a <list> has  *)
(* <list-item>s whose text may be wrapped in a <p>, as may the text of a  *)
(* <disp-quote>.                                                          *)
NoTitle == [present |-> FALSE, text |-> <<>>]

Title(t) == [present |-> TRUE, text |-> t]

P(text) == [tag |-> "p", text |-> text]

Tbl(title) == [tag |-> "table-wrap", title |-> title]

Sec(title, kids) == [tag |-> "sec", title |-> title, kids |-> kids]

Item(wrapped, text) == [wrapped |-> wrapped, text |-> text]

List(items) == [tag |-> "list", items |-> items]

Quote(wrapped, text) == [tag |-> "disp-quote", wrapped |-> wrapped, text |-> text]

OfTag(kids, tag) == SelectSeq(kids, LAMBDA el : el.tag = tag)

(* str.title(): a letter is upper-cased at the start of a word and       *)
(* lower-cased elsewhere.                                                 *)
TitleCase(s) ==
    [i \in 1..Len(s) |-> IF i = 1 \/ s[i - 1] = " " THEN UpperTok(s[i])
                         ELSE LowerTok(s[i])]

(* sec_tag.find("title"): the first <title> among all descendants. *)
RECURSIVE FindTitle(_)
FindTitleIn(kids) ==
    LET found == SelectSeq([i \in 1..Len(kids) |->
                               IF kids[i].tag = "sec" THEN FindTitle(kids[i])
                               ELSE IF kids[i].tag = "table-wrap" THEN kids[i].title
                               ELSE NoTitle],
                           LAMBDA t : t.present)
    IN  IF found = <<>> THEN NoTitle ELSE Head(found)

FindTitle(sec) == IF sec.title.present THEN sec.title ELSE FindTitleIn(sec.kids)

(* A dict in insertion order: assigning to a key it has replaces the     *)
(* value in place.                                                        *)
DictSet(d, k, v) ==
    IF \E i \in 1..Len(d) : d[i].k = k
    THEN [i \in 1..Len(d) |-> IF d[i].k = k THEN [k |-> k, v |-> v] ELSE d[i]]
    ELSE Append(d, [k |-> k, v |-> v])

RECURSIVE DictUpdate(_, _)
DictUpdate(d, items) ==
    IF items = <<>> THEN d
    ELSE DictUpdate(DictSet(d, Head(items).k, Head(items).v), Tail(items))

(* A section dict: its "text" entry (<<>>: no such key) and, in order,   *)
(* its other entries.                                                     *)
SectionDict(text, kids) == [text |-> text, kids |-> kids]

(* section_to_nested_dict as one entry (k, v) of the dict it returns. *)
RECURSIVE section_to_nested_dict(_)
section_to_nested_dict(sec_tag) ==
    LET title_tag == FindTitle(sec_tag)
        section_title == IF title_tag.present THEN TitleCase(Strip(title_tag.text))
                         ELSE <<"Untitled Section">>
        ps == OfTag(sec_tag.kids, "p")
        text == Flatten([i \in 1..Len(ps) |-> ps[i].text])
        secs == OfTag(sec_tag.kids, "sec")
        child_dicts == [i \in 1..Len(secs) |-> section_to_nested_dict(secs[i])]
    IN  [k |-> section_title,
         v |-> SectionDict(text, DictUpdate(<<>>, child_dicts))]

(* A chunk of the linearized text: its lines, bulleted for a list. *)
Chunk(bullets, lines) == [bullets |-> bullets, lines |-> lines]

NonEmpty(texts) == SelectSeq(texts, LAMBDA t : t # <<>>)

(* body_copy.find_all("p"): every <p> below the body, in document order. *)
ParagraphsOf(el) ==
    CASE el.tag = "p" -> <<el.text>>
      [] el.tag = "list" ->
             LET w == SelectSeq(el.items, LAMBDA it : it.wrapped)
             IN  [i \in 1..Len(w) |-> w[i].text]
      [] el.tag = "disp-quote" -> IF el.wrapped THEN <<el.text>> ELSE <<>>
      [] OTHER -> <<>>

(* linearize_body_to_fulltext: the chunks joined into the "Full Text"    *)
(* block, <<>> when it returns the empty dict.                            *)
linearize_body_to_fulltext(body) ==
    LET ps == NonEmpty(Flatten([i \in 1..Len(body) |-> ParagraphsOf(body[i])]))
        lists == OfTag(body, "list")
        items(l) == NonEmpty([i \in 1..Len(l.items) |-> l.items[i].text])
        ls == SelectSeq([i \in 1..Len(lists) |-> items(lists[i])],
                        LAMBDA its : its # <<>>)
        dqs == NonEmpty([i \in 1..Len(OfTag(body, "disp-quote")) |->
                            OfTag(body, "disp-quote")[i].text])
    IN  [i \in 1..Len(ps) |-> Chunk(FALSE, <<ps[i]>>)]
        \o [i \in 1..Len(ls) |-> Chunk(TRUE, ls[i])]
        \o [i \in 1..Len(dqs) |-> Chunk(FALSE, <<dqs[i]>>)]

(* pmc.py lines 142-148: the sections _parse_article builds from a body. *)
BodySections(body) ==
    LET secs == OfTag(body, "sec")
        chunks == linearize_body_to_fulltext(body)
    IN  IF secs # <<>>
        THEN DictUpdate(<<>>, [i \in 1..Len(secs) |-> section_to_nested_dict(secs[i])])
        ELSE IF chunks = <<>> THEN <<>>
        ELSE <<[k |-> <<"Full Text">>,
                v |-> SectionDict(
                          Flatten(Flatten([i \in 1..Len(chunks) |-> chunks[i].lines])),
                          <<>>)]>>

(* ============== single calls of the adapters and helpers =============== *)
Tokens == {"a", "A", " ", "Z", "P", "p"}

SeqsUpTo(S, n) == UNION {[1..k -> S] : k \in 0..n}

Strings == SeqsUpTo(Tokens, MaxLen)

Distinct(s) == \A i, j \in 1..Len(s) : s[i] = s[j] => i = j

(* Batches as run_fulltext builds them: non-empty, of distinct normalized *)
(* identifiers, at most the chunk size long.                              *)
CallDoiBatches ==
    {b \in SeqsUpTo({<<"a">>, <<"b">>}, MaxChunk) : b # <<>> /\ Distinct(b)}

CallPmcBatches ==
    {b \in SeqsUpTo({PMC1, PMC2}, MaxChunk) : b # <<>> /\ Distinct(b)}

(* idconv records: requested identifiers, one in another spelling, and    *)
(* one that was not asked for.                                            *)
CallRecs ==
    {IdconvRec(d, pm) : d \in {<<"a">>, <<"b">>, <<" ", "A">>, <<"c">>},
                        pm \in {PMC1, PMC2, NoPmcid}}

CallPayloads == SeqsUpTo(CallRecs, MaxRecs)

FailExchanges == {NetErr, Http(503, FALSE, <<>>)}

(* Scripts of max_retries exchanges: some failures, then a 200 answer. *)
ScriptsOver(fs, payloads) ==
    {<<Http(200, FALSE, pl), NetErr, NetErr>> : pl \in payloads}
    \cup {<<f, Http(200, FALSE, pl), NetErr>> : f \in fs, pl \in payloads}
    \cup {<<f, g, Http(200, FALSE, pl)>> : f \in fs, g \in fs, pl \in payloads}
    \cup {<<f, g, h>> : f \in fs, g \in fs, h \in fs}

CallScripts == ScriptsOver(FailExchanges, CallPayloads)

SinglePayloads ==
    SeqsUpTo({IdconvRec(<<"a">>, pm) : pm \in {PMC1, PMC2, NoPmcid}}, MaxRecs)

SingleScripts ==
    ScriptsOver(FailExchanges \cup {Http(200, FALSE, <<>>),
                                    Http(200, FALSE, <<IdconvRec(<<"a">>, NoPmcid)>>)},
                {pl \in SinglePayloads : FirstPmcid(pl) # NoPmcid})

EpmcAnswers ==
    {NetErr, Http(200, FALSE, <<>>),
     Http(200, FALSE, <<IdconvRec(<<"a">>, NoPmcid), IdconvRec(<<"a">>, PMC2),
                        IdconvRec(<<"a">>, PMC1)>>)}

(* <article> elements: the pmcid article-id as PMC<digits>, pmc<digits>,  *)
(* bare digits or missing; a body that parses or one with no text.        *)
CallArticles ==
    {Article(t, TRUE, secs, FALSE) :
        t \in {PMC1, PMC2, Pmcid("pmc", "1"), Pmcid("", "1"), NoPmcid},
        secs \in {FullDoc, <<>>}}

CallResponses ==
    {NetErr, Http(503, FALSE, <<>>), Http(200, TRUE, <<>>)}
    \cup {Http(200, FALSE, pl) : pl \in SeqsUpTo(CallArticles, MaxRecs)}

CallExchanges ==
    {NetErr, Http(404, FALSE, <<>>), Http(200, TRUE, <<>>), Http(200, FALSE, <<>>)}
    \cup {Http(200, FALSE, <<Article(PMC1, TRUE, secs, FALSE)>>) :
              secs \in {FullDoc, ShortDoc, <<>>}}

CallChains == [1..3 -> CallExchanges]

(* Markup the normalizer may meet: paragraphs with and without text,    *)
(* dropped elements, sections nested two deep, lists and block quotes.    *)
Titles == {NoTitle, Title(<<"a">>), Title(<<"A">>)}

LeafBlocks == {P(<<"x">>), P(<<>>), Tbl(NoTitle), Tbl(Title(<<"b">>))}

InnerSecs == {Sec(t, k) : t \in Titles, k \in SeqsUpTo(LeafBlocks, 1)}

Secs == {Sec(t, k) : t \in Titles, k \in SeqsUpTo(LeafBlocks \cup InnerSecs, MaxKids)}

Items == {Item(TRUE, <<"y">>), Item(FALSE, <<"y">>), Item(FALSE, <<>>)}

FlatBlocks ==
    {P(<<"x">>), P(<<>>), Tbl(NoTitle)}
    \cup {List(its) : its \in SeqsUpTo(Items, MaxKids)}
    \cup {Quote(w, <<"z">>) : w \in BOOLEAN}

FlatBodies == SeqsUpTo(FlatBlocks, MaxKids)

Bodies == SeqsUpTo(LeafBlocks \cup InnerSecs, MaxKids) \cup FlatBodies

(* Retry-After headers a 429 response may carry. *)
RetryAfterHeaders ==
    {RetryAfter("absent", 0), RetryAfter("garbage", 0)}
    \cup {RetryAfter("secs", v) : v \in {-1, 0, 1, 60, 61}}
    \cup {RetryAfter("date", v) : v \in {-1, 1, 61}}

SpOutcomes ==
    {NoResp}
    \cup {SpResp(429, "doc", h) : h \in RetryAfterHeaders}
    \cup {SpResp(st, "doc", RetryAfter("absent", 0)) : st \in {500, 404}}
    \cup {SpResp(200, c, RetryAfter("absent", 0)) : c \in {"empty", "blank", "doc"}}

(* k attempts answered x, the next one y, every later one z. *)
SpScript(x, k, y, z) ==
    [i \in 1..max_attempts |-> IF i <= k THEN x ELSE IF i = k + 1 THEN y ELSE z]

SpScripts ==
    {SpScript(x, k, y, z) : x \in SpOutcomes, k \in 0..(max_attempts - 1),
                            y \in SpOutcomes, z \in SpOutcomes}

CallInputs(fn) ==
    CASE fn = "normalize_doi" -> Strings
      [] fn = "try_springer_jats" -> [api_key : BOOLEAN, script : SpScripts]
      [] fn = "section_to_nested_dict" -> Secs
      [] fn = "linearize_body_to_fulltext" -> FlatBodies
      [] fn = "_parse_article" -> Bodies
      [] fn = "doi_to_pmcid" ->
             [doi : {<<"a">>}, script : SingleScripts, epmc : EpmcAnswers]
      [] fn = "doi_to_pmcid_fetch_batch" ->
             [dois : CallDoiBatches, script : CallScripts]
      [] fn = "try_pmc_jats_fetch_batch" ->
             [pmcids : CallPmcBatches, r : CallResponses]
      [] OTHER ->
             [pmcid : {PMC1, Pmcid("PMC", "")}, chain : CallChains]

CallNames ==
    {"normalize_doi", "doi_to_pmcid", "doi_to_pmcid_fetch_batch",
     "try_pmc_jats_fetch_batch", "try_pmc_jats", "try_springer_jats",
     "section_to_nested_dict", "linearize_body_to_fulltext", "_parse_article"}

(* The function named by call_fn is about to be called on call_args. *)
InitCalls ==
    /\ PipeInit /\ RlIdle
    /\ call_done = FALSE /\ call_ret = <<>>
    /\ \E fn \in CallNames : call_fn = fn /\ call_args \in CallInputs(fn)

Returns(fn, ret) ==
    /\ call_fn = fn /\ ~call_done
    /\ call_done' = TRUE
    /\ call_ret' = ret
    /\ UNCHANGED <<call_fn, call_args, nonCallVars>>

Call_normalize_doi == Returns("normalize_doi", normalize_doi(call_args))

Call_doi_to_pmcid ==
    Returns("doi_to_pmcid",
            doi_to_pmcid(call_args.doi, call_args.script, call_args.epmc))

Call_doi_to_pmcid_fetch_batch ==
    Returns("doi_to_pmcid_fetch_batch",
            doi_to_pmcid_fetch_batch(call_args.dois, call_args.script))

Call_try_pmc_jats_fetch_batch ==
    Returns("try_pmc_jats_fetch_batch",
            try_pmc_jats_fetch_batch(call_args.pmcids, call_args.r))

Call_try_pmc_jats ==
    Returns("try_pmc_jats", try_pmc_jats(call_args.pmcid, call_args.chain))

Call_try_springer_jats ==
    Returns("try_springer_jats",
            try_springer_jats(call_args.api_key, call_args.script))

Call_section_to_nested_dict ==
    Returns("section_to_nested_dict", section_to_nested_dict(call_args))

Call_linearize_body_to_fulltext ==
    Returns("linearize_body_to_fulltext", linearize_body_to_fulltext(call_args))

(* _parse_article on an article with the body call_args: its sections. *)
Call_parse_article_body == Returns("_parse_article", BodySections(call_args))

NextCalls ==
    \/ Call_normalize_doi
    \/ Call_section_to_nested_dict
    \/ Call_linearize_body_to_fulltext
    \/ Call_parse_article_body
    \/ Call_try_springer_jats
    \/ Call_doi_to_pmcid
    \/ Call_doi_to_pmcid_fetch_batch
    \/ Call_try_pmc_jats_fetch_batch
    \/ Call_try_pmc_jats

SpecCalls == InitCalls /\ [][NextCalls]_vars

(* ============================ properties =============================== *)
Started == pc # "idle"

Key(rec) == normalize_doi(rec.doi)

CountKey(seq, k) == Cardinality({i \in 1..Len(seq) : Key(seq[i]) = k})

PriorKeys == {Key(prior_json[i]) : i \in 1..Len(prior_json)}

ReasonsOf(k) == {failures[i].reason : i \in {j \in 1..Len(failures) : Key(failures[j]) = k}}

FetchFailedReasons ==
    {"PMC fetch failed (batched only)", "PMC fetch failed (batched + single)"}

FailIds(fails) == {fails[i].id : i \in 1..Len(fails)}

DispatchedPmcids == Range(Flatten(pmc_batches))

(* C1: after the resolution stage and after the fetch stage, every item   *)
(* dispatched in a batch is in exactly one of the merged success map and  *)
(* the merged failure list, and the items of a batch whose call raised    *)
(* are in the merged failures with a reason.                              *)
C1_TotalCoverage ==
    /\ pc \in {"stageB", "assemble", "done", "aborted"} =>
          \A d \in Range(dois_norm) :
              (d \in DOMAIN doi_to_pmc) # (d \in FailIds(conv_fails_all))
    /\ pc \in {"assemble", "done", "aborted"} =>
          /\ \A p \in DispatchedPmcids :
                 (p \in DOMAIN pmc_map) # (p \in FailIds(pmc_fails_all))
          /\ \A p \in Range(raised_batch) :
                 \E i \in 1..Len(pmc_fails_all) :
                     pmc_fails_all[i].id = p /\ pmc_fails_all[i].reason # ""

(* C2: a transient upstream error on a bulk call never aborts the run,    *)
(* and the identifiers of a resolution batch that ended in a transient    *)
(* error are failure entries of the completed run.                        *)
C2_TransientNeverAborts ==
    /\ pc # "aborted"
    /\ pc = "done" =>
          \A i \in 1..Len(conv_fails_all) :
              conv_fails_all[i].reason # "idconv: no PMCID" =>
                  \E j \in 1..Len(failures) :
                      /\ Key(failures[j]) = conv_fails_all[i].id
                      /\ failures[j].reason = conv_fails_all[i].reason

NoNewIdentifier == \A i \in 1..Len(df) : df[i].doi_norm \in PriorKeys

(* C3: no resolution call, fetch call, assemble step or failure entry is  *)
(* made for an identifier already in the prior output, and a completed    *)
(* run whose input holds no identifier outside the prior output leaves    *)
(* the result set unchanged, appends nothing and reports no failure.      *)
C3_IdempotentRerun ==
    /\ Started =>
          /\ Range(dois_norm) \cap PriorKeys = {}
          /\ \A p \in DispatchedPmcids \cup single_calls :
                 \E d \in Range(dois_norm) \ PriorKeys :
                     d \in DOMAIN doi_to_pmc /\ doi_to_pmc[d] = p
          /\ \A i \in 1..Len(fetched) : fetched[i].key \notin PriorKeys
          /\ \A i \in 1..Len(failures) : Key(failures[i]) \notin PriorKeys
    /\ (pc = "done" /\ NoNewIdentifier) =>
          /\ out_json = prior_json
          /\ summary_json.appended = 0
          /\ summary_json.failures = 0
          /\ summary_json.skipped_existing = Len(df)
          /\ doi_batches = <<>> /\ pmc_batches = <<>> /\ single_calls = {}

C3_Witness ==
    /\ pc = "done" /\ runs = 2
    /\ Len(df) = 2 /\ NoNewIdentifier
    /\ Len(prior_json) = 2

NoDuplicateKey(seq) ==
    \A i, j \in 1..Len(seq) : Key(seq[i]) = Key(seq[j]) => i = j

(* C4: neither the persisted result set nor the record list being built   *)
(* holds two records whose identifiers normalize to the same key.         *)
C4_NoDuplicateKey == NoDuplicateKey(out_json) /\ NoDuplicateKey(records)

C4_Witness ==
    /\ pc = "done" /\ runs = 2
    /\ \E i \in 1..Len(prior_json) : prior_json[i].doi = <<"P", "A">>
    /\ \E i \in 1..Len(df) : df[i].doi = <<"a">>
    /\ Len(out_json) = 2

(* C5: the result set is not written before the persist step, and after a *)
(* completed run it is the prior result set, unchanged and in order,      *)
(* followed by the records accepted in this run.                          *)
C5_ResumeAdditive ==
    /\ pc \in {"stageA", "stageB", "assemble", "aborted"} => out_json = prior_json
    /\ pc = "done" =>
          /\ Len(out_json) = Len(prior_json) + appended
          /\ SubSeq(out_json, 1, Len(prior_json)) = prior_json
          /\ \A i \in (Len(prior_json) + 1)..Len(out_json) :
                 \E j \in 1..Len(fetched) :
                     /\ fetched[j].key = Key(out_json[i])
                     /\ fetched[j].parsed.ok
                     /\ fetched[j].parsed.sections = out_json[i].sections

C5_Witness ==
    /\ pc = "done" /\ runs = 2
    /\ prior_json # <<>> /\ appended > 0

(* C6: after a completed run the failure ledger holds exactly the failure *)
(* entries of that run.                                                   *)
C6_LedgerIsCurrentRun == pc = "done" => skipped_csv = failures

AcceptedKey(k) == CountKey(records, k) - CountKey(prior_json, k) = 1 /\ ReasonsOf(k) = {}

RejectedKey(k) ==
    CountKey(records, k) - CountKey(prior_json, k) = 0 /\ ReasonsOf(k) = {"abstract_only"}

(* C7: with require_fulltext on, a fetched document whose body text is    *)
(* shorter than min_fulltext_chars (in particular min_fulltext_chars - 1) *)
(* is rejected as abstract_only and one of at least min_fulltext_chars    *)
(* characters is accepted; with require_fulltext off every fetched        *)
(* document is accepted.                                                  *)
C7_ContentLengthGate ==
    \A i \in 1..Len(fetched) :
        LET doc == fetched[i].parsed
            n == _body_len(doc.sections)
            k == fetched[i].key
        IN  doc.ok =>
              /\ (cfg.require_fulltext /\ n < cfg.min_fulltext_chars) => RejectedKey(k)
              /\ (cfg.require_fulltext /\ n >= cfg.min_fulltext_chars) => AcceptedKey(k)
              /\ ~cfg.require_fulltext => AcceptedKey(k)

C7_Witness ==
    /\ cfg.require_fulltext /\ cfg.min_fulltext_chars = MinChars
    /\ \E i, j \in 1..Len(fetched) :
          /\ fetched[i].parsed.ok /\ fetched[j].parsed.ok
          /\ _body_len(fetched[i].parsed.sections) = MinChars - 1
          /\ _body_len(fetched[j].parsed.sections) = MinChars
          /\ RejectedKey(fetched[i].key)
          /\ AcceptedKey(fetched[j].key)

TerminalStates ==
    {"already_present", "accepted", "resolution_failed", "fetch_failed",
     "rejected_abstract_only"}

NewRecordsOf(k) == CountKey(out_json, k) - CountKey(prior_json, k)

InTerminal(k, t) ==
    CASE t = "already_present" ->
             k \in PriorKeys /\ NewRecordsOf(k) = 0 /\ CountKey(failures, k) = 0
      [] t = "accepted" ->
             /\ k \notin PriorKeys /\ CountKey(out_json, k) = 1
             /\ CountKey(failures, k) = 0
      [] t = "rejected_abstract_only" ->
             /\ k \notin PriorKeys /\ CountKey(out_json, k) = 0
             /\ CountKey(failures, k) = 1 /\ ReasonsOf(k) = {"abstract_only"}
      [] t = "fetch_failed" ->
             /\ k \notin PriorKeys /\ CountKey(out_json, k) = 0
             /\ CountKey(failures, k) = 1 /\ ReasonsOf(k) \subseteq FetchFailedReasons
      [] OTHER ->
             /\ k \notin PriorKeys /\ CountKey(out_json, k) = 0
             /\ CountKey(failures, k) = 1
             /\ ReasonsOf(k) \cap (FetchFailedReasons \cup {"abstract_only"}) = {}

TerminalsOf(k) == {t \in TerminalStates : InTerminal(k, t)}

(* C8: when a run completes every identifier of the deduplicated input is *)
(* in exactly one terminal state, with one new record and no failure      *)
(* entry (accepted), one failure entry and no record (the three failure   *)
(* terminals), or neither (already_present).                              *)
C8_OneTerminalState ==
    pc = "done" =>
        /\ \A i \in 1..Len(df) : Cardinality(TerminalsOf(df[i].doi_norm)) = 1
        /\ \A i \in 1..Len(failures) :
               \E j \in 1..Len(df) : df[j].doi_norm = Key(failures[i])
        /\ \A i \in (Len(prior_json) + 1)..Len(out_json) :
               \E j \in 1..Len(df) : df[j].doi_norm = Key(out_json[i])

C8_Witness ==
    /\ pc = "done" /\ runs = 2 /\ Len(df) = 2
    /\ \E i, j \in 1..Len(df) :
          /\ TerminalsOf(df[i].doi_norm) = {"already_present"}
          /\ TerminalsOf(df[j].doi_norm) = {"rejected_abstract_only"}

(* C9: a fetched document with no sections and no abstract ends as a      *)
(* fetch failure: it has no record and its failure reason is a fetch      *)
(* failure, never abstract_only.                                          *)
C9_EmptyContentIsFetchFailure ==
    \A i \in 1..Len(fetched) :
        LET doc == fetched[i].parsed
            k == fetched[i].key
        IN  (doc.ok /\ doc.sections = <<>> /\ ~doc.abstract) =>
              /\ CountKey(records, k) = CountKey(prior_json, k)
              /\ ReasonsOf(k) # {}
              /\ ReasonsOf(k) \subseteq FetchFailedReasons

AdmittedIn(lo, hi) ==
    Cardinality({j \in 1..Len(admitted) : lo < admitted[j] /\ admitted[j] <= hi})

(* C10: no more than rl_max calls return from acquire within any window   *)
(* of rl_win seconds (t - rl_win, t].                                     *)
C10_SlidingWindowBound ==
    \A i \in 1..Len(admitted) :
        AdmittedIn(admitted[i] - rl_win, admitted[i]) <= rl_max

(* C11: normalize_doi maps every string to a normalized identifier or to  *)
(* none, and applying it to its own result changes nothing.               *)
C11_NormalizeIdempotentTotal ==
    (call_fn = "normalize_doi" /\ call_done) =>
        /\ call_ret \in Strings
        /\ normalize_doi(call_ret) = call_ret

First200(script) ==
    LET ok == {n \in 1..max_retries : script[n].status = 200}
    IN  IF ok = {} THEN 0 ELSE CHOOSE n \in ok : \A m \in ok : n <= m

AttemptReason(r) ==
    IF r.status = 0 THEN "idconv error: timeout"
    ELSE "idconv HTTP " \o ToString(r.status)

Answered200 ==
    /\ call_fn = "doi_to_pmcid_fetch_batch" /\ call_done
    /\ call_args.script[call_ret.calls].status = 200

Requested == Range(call_args.dois)

AnswerRecs == call_args.script[call_ret.calls].recs

Listed ==
    {d \in Requested :
        \E i \in 1..Len(AnswerRecs) :
            StripLower(AnswerRecs[i].doi) = d /\ AnswerRecs[i].pmcid # NoPmcid}

(* C16: on a 200 answer the success map's keys are exactly the requested  *)
(* identifiers the answer lists with a non-empty canonical ID, the        *)
(* failure list holds exactly the other requested identifiers, and no     *)
(* identifier outside the requested batch is in either output.            *)
C16_ResolutionExact ==
    Answered200 =>
        /\ DOMAIN call_ret.out = Listed
        /\ FailIds(call_ret.fails) = Requested \ Listed
        /\ (DOMAIN call_ret.out \cup FailIds(call_ret.fails)) \subseteq Requested

PresentParseable(recs, pm) ==
    \E j \in 1..Len(recs) :
        /\ recs[j].tag # NoPmcid
        /\ Digits(recs[j].tag) = Digits(pm)
        /\ _parse_article(recs[j]).ok

(* C17: on a 200 bulk fetch answer every requested ID that is present and *)
(* parseable is in the success map under the requested ID (the key        *)
(* run_fulltext looks it up by) and not in the failure list, and every    *)
(* other requested ID is in the failure list exactly once and not in the  *)
(* success map.                                                           *)
C17_BulkFetchPartition ==
    (/\ call_fn = "try_pmc_jats_fetch_batch" /\ call_done
     /\ call_args.r.status = 200 /\ ~call_args.r.empty) =>
        \A i \in 1..Len(call_args.pmcids) :
            LET pm == call_args.pmcids[i]
                inOut == pm \in DOMAIN call_ret.out
                nFail == Cardinality({j \in 1..Len(call_ret.fails) :
                                         call_ret.fails[j].id = pm})
            IN  IF PresentParseable(call_args.r.recs, pm)
                THEN inOut /\ nFail = 0
                ELSE ~inOut /\ nFail = 1

FirstListed(recs, d) ==
    LET hits == SelectSeq(recs, LAMBDA rec : StripLower(rec.doi) = d
                                             /\ rec.pmcid # NoPmcid)
    IN  IF hits = <<>> THEN NoPmcid ELSE Head(hits).pmcid

FirstAnswering(exchanges) ==
    LET hits == SelectSeq(exchanges,
                    LAMBDA r : r.status = 200
                               /\ \E i \in 1..Len(r.recs) : r.recs[i].pmcid # NoPmcid)
    IN  IF hits = <<>> THEN NoPmcid
        ELSE FirstListed(Head(hits).recs, <<"a">>)

(* C18: the canonical ID returned for an identifier is that of the first  *)
(* record of the answer that lists it with a non-empty canonical ID, in   *)
(* doi_to_pmcid and in doi_to_pmcid_fetch_batch.                          *)
C18_FirstCandidateWins ==
    /\ Answered200 =>
          \A d \in DOMAIN call_ret.out :
              call_ret.out[d] = FirstListed(AnswerRecs, d)
    /\ (call_fn = "doi_to_pmcid" /\ call_done) =>
          call_ret.pmcid =
              FirstAnswering(call_args.script \o <<call_args.epmc>>)

Yields(r) ==
    /\ r.status = 200 /\ ~r.empty /\ r.recs # <<>>
    /\ _parse_article(Head(r.recs)).ok

(* C19: try_pmc_jats contacts EFetch, OAI-PMH and Europe PMC in that      *)
(* order, contacts an endpoint only if none before it yielded a parseable *)
(* document, returns the document of the first endpoint that yields one,  *)
(* and returns a failure only if no endpoint of the chain yields one.     *)
C19_FallbackChain ==
    (call_fn = "try_pmc_jats" /\ call_done /\ Digits(call_args.pmcid) # "") =>
        LET chain == call_args.chain
            k == call_ret.calls
        IN  /\ k \in 1..Len(chain)
            /\ \A j \in 1..(k - 1) : ~Yields(chain[j])
            /\ call_ret.parsed.ok =>
                  /\ Yields(chain[k])
                  /\ call_ret.parsed = _parse_article(Head(chain[k].recs))
            /\ ~call_ret.parsed.ok => \A j \in 1..Len(chain) : ~Yields(chain[j])

(* C12: whatever point a run is interrupted at, the result file is a      *)
(* complete document that load_existing can read, and it holds either     *)
(* the records the run started from or all the records of the run.        *)
C12_ConsistentAfterInterrupt ==
    /\ ~out_json_torn
    /\ Started => out_json \in {prior_json, records}

FilesUnchanged ==
    /\ out_json' = out_json /\ out_json_torn' = out_json_torn
    /\ skipped_csv' = skipped_csv /\ summary_json' = summary_json

(* C13: a step changes an output file only if it writes it; the only      *)
(* writing step is the one taken after the assemble loop, when no         *)
(* resolution batch and no fetch batch is outstanding, and it writes each *)
(* file at most once; the steps that complete a worker's batch write      *)
(* nothing.                                                               *)
C13_SingleWriter ==
    [][IF writes' = writes \/ writes' = NoWrites
       THEN FilesUnchanged
       ELSE /\ pc = "assemble" /\ row_i > Len(todo_rows)
            /\ idconv_left = {} /\ efetch_left = {}
            /\ writes = NoWrites
            /\ \A f \in DOMAIN writes : writes'[f] <= 1]_vars

C13_Witness ==
    /\ pc = "done"
    /\ Len(doi_batches) = 2 /\ Len(pmc_batches) = 2
    /\ writes = [out_json |-> 1, skipped_csv |-> 1, summary_json |-> 1]
    /\ out_json # <<>>

ScenarioRun ==
    /\ pc = "done" /\ prior_json = <<>>
    /\ Len(df) = 2 /\ Len(fetched) = 2
    /\ cfg.require_fulltext /\ cfg.min_fulltext_chars = MinChars
    /\ df[1].doi_norm \in DOMAIN doi_to_pmc
    /\ fetched[1].parsed.ok
    /\ _body_len(fetched[1].parsed.sections) = MinChars - 1
    /\ df[2].doi_norm \notin DOMAIN doi_to_pmc
    /\ FirstReason(conv_fails_all, df[2].doi_norm) # ""

(* C14: a completed run on an empty prior output with two input rows, the *)
(* first resolved and fetched with a body one character short of          *)
(* min_fulltext_chars, the second failed by the resolver, appends no      *)
(* record, writes a ledger of exactly two entries keyed by the normalized *)
(* identifiers with their journals and the reasons abstract_only and the  *)
(* resolver's reason, and reports input 2, appended 0, failures 2.        *)
C14_EndToEndScenario ==
    ScenarioRun =>
        /\ out_json = <<>>
        /\ skipped_csv =
              <<FailureEntry(df[1].doi_norm, df[1].journal, "abstract_only"),
                FailureEntry(df[2].doi_norm, df[2].journal,
                             FirstReason(conv_fails_all, df[2].doi_norm))>>
        /\ summary_json.input_unique_doi = 2
        /\ summary_json.appended = 0
        /\ summary_json.failures = 2

AssembledPmcid(i) == Get(doi_to_pmc, fetched[i].key, NoPmcid)

MissingFromBulk(pm) == pm # NoPmcid /\ ~Get(pmc_map, pm, NoParsed).ok

(* C20: with skip_pmc_single_fallback on, a run calls try_pmc_jats for no *)
(* identifier and an identifier that resolved but is missing from the     *)
(* bulk fetch result ends as a fetch failure without a record; with it    *)
(* off, try_pmc_jats is called only for identifiers that resolved and are *)
(* missing from the bulk fetch result.                                    *)
C20_FallbackToggle ==
    /\ cfg.skip_pmc_single_fallback =>
          /\ single_calls = {}
          /\ \A i \in 1..Len(fetched) :
                 MissingFromBulk(AssembledPmcid(i)) =>
                     /\ ReasonsOf(fetched[i].key) = {"PMC fetch failed (batched only)"}
                     /\ CountKey(records, fetched[i].key)
                            = CountKey(prior_json, fetched[i].key)
    /\ ~cfg.skip_pmc_single_fallback =>
          /\ \A pm \in single_calls :
                 /\ MissingFromBulk(pm)
                 /\ \E i \in 1..Len(fetched) : AssembledPmcid(i) = pm
          /\ \A i \in 1..Len(fetched) :
                 AssembledPmcid(i) \in single_calls
                     <=> MissingFromBulk(AssembledPmcid(i))

C20_Witness ==
    /\ pc = "done" /\ ~cfg.skip_pmc_single_fallback
    /\ \E i, j \in 1..Len(fetched) :
          /\ AssembledPmcid(i) \in single_calls
          /\ AssembledPmcid(j) # NoPmcid
          /\ AssembledPmcid(j) \notin single_calls
          /\ fetched[i].parsed.ok /\ fetched[j].parsed.ok

(* ---------------------- try_springer_jats calls ------------------------ *)
SpringerCalled == call_fn = "try_springer_jats" /\ call_done

Gets(log) == {i \in 1..Len(log) : log[i].ev = "get"}

NthGet(log, n) ==
    CHOOSE i \in Gets(log) : Cardinality({j \in Gets(log) : j <= i}) = n

Sleeps(log) == {i \in 1..Len(log) : log[i].ev = "sleep"}

(* The hint of a Retry-After header in seconds, 0 when it gives none. *)
HintedSeconds(h) ==
    CASE h.kind = "secs" -> h.val
      [] h.kind = "date" -> IF h.val > 0 THEN h.val ELSE 0
      [] OTHER -> 0

C28_MissingKeyFailsFast ==
    (SpringerCalled /\ ~call_args.api_key) =>
        /\ ~call_ret.ok
        /\ call_ret.reason # <<>>
        /\ call_ret.raised = ""
        /\ call_ret.log = <<>>

C28_Witness ==
    /\ SpringerCalled /\ ~call_args.api_key
    /\ call_args.script[1].status = 200 /\ call_args.script[1].content = "doc"
    /\ call_ret.reason = <<"SPRINGER_API_KEY not set">>

(* The attempts that were answered 200 with content. *)
Succeeded(script, n) == script[n].status = 200 /\ script[n].content # "empty"

(* C29: a call of try_springer_jats with a key sends at most six         *)
(* requests, acquires the limiter exactly once directly before each of    *)
(* them, sends nothing after the first 200 response with content, lets no *)
(* request error reach its caller, returns a failure with a non-empty     *)
(* reason when no attempt succeeded, and parses only a 200 response.      *)
C29_RetryLoop ==
    (SpringerCalled /\ call_args.api_key) =>
        LET log == call_ret.log
            sent == Cardinality(Gets(log))
        IN  /\ sent <= max_attempts
            /\ \A i \in Gets(log) : i > 1 /\ log[i - 1].ev = "acquire"
            /\ \A i \in 1..Len(log) :
                   log[i].ev = "acquire" => i < Len(log) /\ log[i + 1].ev = "get"
            /\ \A n \in 1..sent : Succeeded(call_args.script, n) => sent = n
            /\ call_ret.raised # "RequestException"
            /\ (\A n \in 1..sent : ~Succeeded(call_args.script, n)) =>
                   /\ call_ret.raised = ""
                   /\ ~call_ret.ok
                   /\ call_ret.reason # <<>>
            /\ call_ret.parsed_status \in {0, 200}

(* ------------------- concurrent use of the limiter --------------------- *)
(* The statements of acquire that read or write the limiter's state. *)
InCritical(t) == th_pc[t] \in {"test", "pop", "full", "sleep_for", "append"}

(* C22: whatever the interleaving of the threads calling acquire, no two *)
(* of them are inside the statements that read and update the limiter's   *)
(* state at the same time, no call fails, and no more than rl_max calls   *)
(* return within any window of rl_win seconds.                            *)
C22_ConcurrentLimiter ==
    /\ \A t, u \in Threads : (InCritical(t) /\ InCritical(u)) => t = u
    /\ \A t \in Threads : th_pc[t] # "raised"
    /\ \A i \in 1..Len(admitted) :
           AdmittedIn(admitted[i] - rl_win, admitted[i]) <= rl_max

(* C30: the summary a completed run writes counts every input row once:  *)
(* input_unique_doi = appended + skipped_existing + failures, where       *)
(* appended is the number of records the run added to the result file and *)
(* failures the number of entries of the run's failure list.              *)
C30_CounterIdentity ==
    pc = "done" =>
        /\ summary_json.input_unique_doi = Len(df)
        /\ summary_json.input_unique_doi
               = summary_json.appended + summary_json.skipped_existing
                 + summary_json.failures
        /\ summary_json.appended = Len(out_json) - Len(prior_json)
        /\ summary_json.failures = Len(failures)
        /\ summary_json.skipped_existing
               = Cardinality({i \in 1..Len(df) : Key(df[i]) \in PriorKeys})

(* A resumed run that skipped one row, added a record and failed none,   *)
(* after a run that failed a row.                                         *)
C30_Witness ==
    /\ pc = "done" /\ runs = 2
    /\ summary_json.skipped_existing = 1
    /\ summary_json.appended = 1
    /\ Len(out_json) = 2

(* ---------------------- order of the stages --------------------------- *)
(* The canonical IDs the resolution stage has produced for this run's    *)
(* identifiers.                                                           *)
ResolvedPmcids ==
    {Get(doi_to_pmc, d, NoPmcid) : d \in Range(dois_norm)} \ {NoPmcid}

StaysPrefix(old, new) ==
    Len(old) <= Len(new) /\ SubSeq(new, 1, Len(old)) = old

(* C24: in every step of a run, a bulk fetch batch is under way only     *)
(* when no resolution batch is outstanding, every canonical ID given to   *)
(* the bulk fetch or to try_pmc_jats was resolved before for an           *)
(* identifier of the run, a record is appended only for a row whose       *)
(* document was fetched and passed the content-length check, and the      *)
(* outcome recorded for a row is not changed or removed later in the run. *)
C24_StateOrder ==
    [][ /\ pc' = "stageB" => idconv_left' = {}
        /\ efetch_left' # {} => idconv_left' = {}
        /\ (pc = "stageB" /\ pc' # "idle") =>
               /\ idconv_left = {}
               /\ DispatchedPmcids \subseteq ResolvedPmcids
        /\ (pc = "assemble" /\ pc' # "idle") =>
               /\ (single_calls' \ single_calls) \subseteq ResolvedPmcids
               /\ Len(records') > Len(records) =>
                      LET f == fetched'[Len(fetched')]
                          rec == records'[Len(records')]
                      IN  /\ Len(fetched') = Len(fetched) + 1
                          /\ f.key = Key(rec)
                          /\ f.parsed.ok
                          /\ rec.pmcid \in ResolvedPmcids
                          /\ rec.pmcid \in DispatchedPmcids \cup single_calls'
                          /\ cfg.require_fulltext =>
                                 _body_len(f.parsed.sections)
                                     >= Max(0, cfg.min_fulltext_chars)
        /\ (pc # "idle" /\ pc' # "idle") =>
               /\ StaysPrefix(fetched, fetched')
               /\ StaysPrefix(failures, failures')
               /\ StaysPrefix(records, records')
      ]_vars

(* A finished run with two resolution batches, a bulk fetch, a document  *)
(* from the single fallback, an accepted record and a failed row.         *)
C24_Witness ==
    /\ pc = "done"
    /\ Len(doi_batches) = 2 /\ Len(pmc_batches) >= 1
    /\ single_calls # {}
    /\ Len(records) >= 1 /\ Len(failures) >= 1
    /\ \E i \in 1..Len(fetched) :
           fetched[i].parsed.ok /\ AssembledPmcid(i) \in single_calls

(* ----------------------- order of completion --------------------------- *)
(* The merged results when the batches complete in dispatch order. *)
RECURSIVE InOrderIdconv(_, _)
InOrderIdconv(batches, acc) ==
    IF batches = <<>> THEN acc
    ELSE LET res == doi_to_pmcid_fetch_batch(Head(batches), MergeScript(Head(batches)))
         IN  InOrderIdconv(Tail(batches),
                 [out |-> Update(acc.out, res.out), fails |-> acc.fails \o res.fails])

RECURSIVE InOrderEfetch(_, _)
InOrderEfetch(batches, acc) ==
    IF batches = <<>> THEN acc
    ELSE InOrderEfetch(Tail(batches),
             Update(acc, try_pmc_jats_fetch_batch(Head(batches),
                                                  MergeResponse(Head(batches))).out))

(* What the assemble loop makes of a row, given the merged results. *)
RowOutcome(row, d2p, pmap, cfails) ==
    LET dn == normalize_doi(row.doi)
        pmcid == Get(d2p, dn, NoPmcid)
        parsed == Get(pmap, pmcid, NoParsed)
        failed(reason) == [accepted |-> FALSE, reason |-> reason,
                           pmcid |-> NoPmcid, sections |-> <<>>]
    IN  IF pmcid = NoPmcid
        THEN failed(IF FirstReason(cfails, dn) = "" THEN "No PMCID"
                    ELSE FirstReason(cfails, dn))
        ELSE IF ~parsed.ok THEN failed("PMC fetch failed (batched only)")
        ELSE IF cfg.require_fulltext
                /\ _body_len(parsed.sections) < Max(0, cfg.min_fulltext_chars)
        THEN failed("abstract_only")
        ELSE [accepted |-> TRUE, reason |-> "", pmcid |-> pmcid,
              sections |-> parsed.sections]

ActualOutcome(i) == RowOutcome(todo_rows[i], doi_to_pmc, pmc_map, conv_fails_all)

InOrderOutcome(i) ==
    LET a == InOrderIdconv(doi_batches, [out |-> EmptyMap, fails |-> <<>>])
        pmcids == PmcidsOf(dois_norm, a.out)
        pmap == InOrderEfetch(Batches(pmcids, cfg.efetch_chunk), EmptyMap)
    IN  RowOutcome(todo_rows[i], a.out, pmap, a.fails)

(* C23: with the input and the answer to every request fixed, a finished *)
(* run has given every identifier the terminal state and reason, and has  *)
(* persisted the records and counters, that it gives when the batches     *)
(* complete in dispatch order, whatever order they completed in.          *)
C23_MergeOrderIndependent ==
    pc = "done" =>
        LET rows == 1..Len(todo_rows)
            acc == {i \in rows : InOrderOutcome(i).accepted}
        IN  /\ \A i \in rows :
                   LET o == InOrderOutcome(i)
                       k == normalize_doi(todo_rows[i].doi)
                   IN  /\ ActualOutcome(i) = o
                       /\ o.accepted =>
                              \E j \in 1..Len(out_json) :
                                  /\ Key(out_json[j]) = k
                                  /\ out_json[j].pmcid = o.pmcid
                                  /\ out_json[j].sections = o.sections
                       /\ ~o.accepted =>
                              /\ ReasonsOf(k) = {o.reason}
                              /\ CountKey(out_json, k) = 0
            /\ Len(out_json) = Cardinality(acc)
            /\ summary_json.appended = Cardinality(acc)
            /\ summary_json.failures = Len(todo_rows) - Cardinality(acc)

(* ----------------------- section normalization ------------------------- *)
Returned(fn) == call_fn = fn /\ call_done

(* No node of the forest, at any depth, lacks both text and children. *)
RECURSIVE NoEmptyNode(_)
NoEmptyNode(forest) ==
    \A i \in 1..Len(forest) :
        /\ forest[i].v.text # <<>> \/ forest[i].v.kids # <<>>
        /\ NoEmptyNode(forest[i].v.kids)

(* The element and everything below it is a dropped element or a         *)
(* subsection of dropped elements.                                        *)
RECURSIVE OnlyDropped(_)
OnlyDropped(el) ==
    \/ el.tag = "table-wrap"
    \/ el.tag = "sec" /\ \A i \in 1..Len(el.kids) : OnlyDropped(el.kids[i])

(* C25: the forest built from a body has no node without text and        *)
(* without children at any depth, and a body whose subsections hold only  *)
(* denylisted elements gives the empty forest.                            *)
C25_NoEmptyNode ==
    /\ Returned("_parse_article") =>
           /\ NoEmptyNode(call_ret)
           /\ (/\ OfTag(call_args, "sec") # <<>>
               /\ \A i \in 1..Len(call_args) : OnlyDropped(call_args[i]))
                  => call_ret = <<>>
    /\ Returned("section_to_nested_dict") => NoEmptyNode(call_ret.v.kids)

(* The node is the subsection: its text is the texts of the immediate    *)
(* paragraphs in order, and its children are the child subsections, one   *)
(* node each, in document order.                                          *)
RECURSIVE Mirrors(_, _)
Mirrors(sec, node) ==
    LET ps == OfTag(sec.kids, "p")
        secs == OfTag(sec.kids, "sec")
    IN  /\ node.text = Flatten([i \in 1..Len(ps) |-> ps[i].text])
        /\ Len(node.kids) = Len(secs)
        /\ \A i \in 1..Len(secs) : Mirrors(secs[i], node.kids[i].v)

(* C26: section_to_nested_dict returns one node per subsection at every  *)
(* level, each with the space-joined text of its immediate paragraphs and *)
(* with its children in document order, also for siblings with the same   *)
(* title and for untitled subsections; _parse_article keeps one such node *)
(* per top-level subsection of the body, in order.                        *)
C26_TreeLossless ==
    /\ Returned("section_to_nested_dict") => Mirrors(call_args, call_ret.v)
    /\ (Returned("_parse_article") /\ OfTag(call_args, "sec") # <<>>) =>
           LET secs == OfTag(call_args, "sec")
           IN  /\ Len(call_ret) = Len(secs)
               /\ \A i \in 1..Len(secs) : Mirrors(secs[i], call_ret[i].v)

(* The chunk a block of the body contributes, <<>> for none. *)
BlockChunk(el) ==
    CASE el.tag = "p" -> IF el.text = <<>> THEN <<>> ELSE <<Chunk(FALSE, <<el.text>>)>>
      [] el.tag = "list" ->
             LET its == NonEmpty([i \in 1..Len(el.items) |-> el.items[i].text])
             IN  IF its = <<>> THEN <<>> ELSE <<Chunk(TRUE, its)>>
      [] el.tag = "disp-quote" -> <<Chunk(FALSE, <<el.text>>)>>
      [] OTHER -> <<>>

(* C27: for a body without subsections linearize_body_to_fulltext emits  *)
(* the paragraphs, lists and block quotes in the order of the source,     *)
(* the text of each block exactly once.                                   *)
C27_DocumentOrder ==
    Returned("linearize_body_to_fulltext") =>
        call_ret = Flatten([i \in 1..Len(call_args) |-> BlockChunk(call_args[i])])

====
